---- MODULE Spec2Model ----
(***************************************************************************)
(* Model of CeresMatrixManifolds.cpp: the MatrixDenoising first-order      *)
(* function (Evaluate, NumParameters, costFrobenius, gradientFrobenius,    *)
(* costGradientFrobenius), the solver driver solveGradientProblem and the  *)
(* two scenario drivers main_DS_denoise and main.                          *)
(*                                                                         *)
(* Numbers.  Matrix entries are reals; the model draws them from a small   *)
(* integer range and computes over the reals exactly (no rounding, no      *)
(* NaN/Inf).  A scalar result of the form (num/den)*sqrt(rad) is kept as   *)
(* the record [num, den, rad], so that .norm() and the factor 0.5 are      *)
(* computed as written in the source and never approximated.               *)
(*                                                                         *)
(* Matrices.  A MatrixXd is [rows, cols, data] with data the column-major  *)
(* storage (Eigen's default), entry (i,j) at data[(j-1)*rows + i].         *)
(***************************************************************************)
EXTENDS Integers, Sequences, FiniteSets

\* ------------------------------------------------------------ bounds
\* Entries of the matrices the model materialises: rows*cols <= MaxEntries.
MaxEntries == 2
\* Matrix entries are drawn from -1 .. MaxVal.
MaxVal == 1

Vals == (-1) .. MaxVal

\* Shapes rows x cols of the materialised matrices.
Shapes == {s \in (1..MaxEntries) \X (1..MaxEntries) : s[1] * s[2] <= MaxEntries}

\* All flat buffers of n doubles.
Buffers(n) == [1..n -> Vals]

\* Dimensions beyond those whose entries the model materialises: around
\* sqrt(2^31) and at 2^15, 2^16, where rows*cols leaves the range of int.
LargeDims == {46340, 46341, 32768, 65536}

\* ------------------------------------------------------------ state
VARIABLES
    A,           \* the target matrix the functor refers to (MatrixXd &A)
    parameters,  \* the buffer behind `const double* parameters`
    gradient,    \* the argument `double* gradient`: NULL, or a buffer
    cost,        \* the buffer behind `double* cost`: <<>> until cost[0] is written
    ret,         \* what the last Evaluate call returned: "none" while a call is pending
    numParams,   \* what the last NumParameters call returned: <<>> before any call
    memo,        \* history: a recorded (parameters, cost) of an earlier call without gradient
    scenario,    \* which scenario driver runs: "none", "main_DS_denoise" or "main"
    pc,          \* position of the scenario driver
    X,           \* the scenario driver's candidate matrix
    iter         \* iterations the solver has performed

vars == <<A, parameters, gradient, cost, ret, numParams, memo, scenario, pc, X, iter>>

\* ------------------------------------------------------------ Eigen
\* gradient == NULL
NULL == [null |-> TRUE, data |-> <<>>]

\* A non-null pointer to the buffer buf.
Ptr(buf) == [null |-> FALSE, data |-> buf]

\* Map<MatrixXd>(ptr, rows, cols): a matrix view over a flat buffer, no copy.
Map(buf, rows, cols) == [rows |-> rows, cols |-> cols, data |-> buf]

\* M(i, j) in column-major storage.
At(M, i, j) == M.data[(j - 1) * M.rows + i]

\* X - Y, coefficient-wise.
MatSub(M1, M2) ==
    [rows |-> M1.rows, cols |-> M1.cols,
     data |-> [k \in 1..(M1.rows * M1.cols) |-> M1.data[k] - M2.data[k]]]

\* -M
Neg(M) == [M EXCEPT !.data = [k \in 1..Len(M.data) |-> 0 - M.data[k]]]

\* The buffer of n doubles all equal to v.
Fill(n, v) == [k \in 1..n |-> v]

RECURSIVE SumEntries(_, _)
SumEntries(d, n) == IF n = 0 THEN 0 ELSE d[n] + SumEntries(d, n - 1)

RECURSIVE SumSq(_, _)
SumSq(d, n) == IF n = 0 THEN 0 ELSE d[n] * d[n] + SumSq(d, n - 1)

\* M.squaredNorm(): the sum of the squares of all coefficients.
squaredNorm(M) == SumSq(M.data, M.rows * M.cols)

\* M.norm() == sqrt(M.squaredNorm()), kept exactly as 1/1 * sqrt(rad).
norm(M) == [num |-> 1, den |-> 1, rad |-> squaredNorm(M)]

\* 0.5 * c
Half(c) == [c EXCEPT !.den = 2 * c.den]

\* Sign of the real (num/den)*sqrt(rad), den > 0.
Sign(c) == IF c.num = 0 \/ c.rad = 0 THEN 0 ELSE IF (c.num > 0) = (c.rad > 0) THEN 1 ELSE -1

\* Two scalar results denote the same real number.
SameReal(c1, c2) ==
    /\ Sign(c1) = Sign(c2)
    /\ c1.num * c1.num * c1.rad * c2.den * c2.den = c2.num * c2.num * c2.rad * c1.den * c1.den

\* ------------------------------------------------------------ MatrixDenoising
\* MatrixDenoising(MatrixXd &_A) : A(_A) { }
\* The functor is its one member, the reference A; `self` below is `this`.
MatrixDenoising(_A) == [A |-> _A]

\* Variant: (X - A).sum() in place of (X - A).norm().
costFrobenius_sum(self, M) ==
    [num |-> SumEntries(MatSub(M, self.A).data, M.rows * M.cols), den |-> 2, rad |-> 1]
\* Variant: the factor 0.5 left out.
costFrobenius_nohalf(self, M) == norm(MatSub(M, self.A))
\* double cost = (X - A).norm(); return 0.5*cost;
costFrobenius(self, M) == Half(norm(MatSub(M, self.A)))

\* Variant: return A - X;
gradientFrobenius_swapped(self, M) == MatSub(self.A, M)
\* Variant: return X;
gradientFrobenius_noA(self, M) == M
\* return X - A;
gradientFrobenius(self, M) == MatSub(M, self.A)

\* Grad = gradientFrobenius(X); double cost = Grad.norm(); return 0.5*cost;
\* The result carries both the matrix assigned to Grad and the returned cost.
costGradientFrobenius(self, M) ==
    LET Grad == gradientFrobenius(self, M)
    IN  [Grad |-> Grad, cost |-> Half(norm(Grad))]

\* The view P0 Evaluate builds over the parameter buffer.
P0 == Map(parameters, A.rows, A.cols)

\* Variant: the difference X - A is formed in place, in the parameter buffer.
Evaluate_inplace ==
    /\ parameters' = MatSub(P0, A).data
    /\ cost' = <<Half(norm(Map(parameters', A.rows, A.cols)))>>
    /\ gradient' = IF gradient.null THEN gradient ELSE Ptr(parameters')
    /\ ret' = "true"
    /\ UNCHANGED <<A, numParams, scenario, pc, X, iter>>
\* Variant: a call without gradient buffer is refused.
Evaluate_reject ==
    /\ IF gradient.null
         THEN /\ cost' = cost
              /\ ret' = "false"
         ELSE /\ cost' = <<costGradientFrobenius(MatrixDenoising(A), P0).cost>>
              /\ ret' = "true"
    /\ UNCHANGED <<A, parameters, gradient, numParams, scenario, pc, X, iter>>
\* bool Evaluate(const double* parameters, double* cost, double* gradient) const
Evaluate ==
    LET self == MatrixDenoising(A)
    IN  /\ IF gradient.null
             THEN /\ cost' = <<costFrobenius(self, P0)>>
                  /\ gradient' = gradient
             ELSE LET r == costGradientFrobenius(self, P0)
                  IN  /\ gradient' = Ptr(r.Grad.data)
                      /\ cost' = <<r.cost>>
        /\ ret' = "true"
        /\ UNCHANGED <<A, parameters, numParams, scenario, pc, X, iter>>

\* ------------------------------------------------------------ int NumParameters()
\* A.rows() and A.cols() are Eigen::Index (64 bits); their product is computed
\* in 64 bits and converted to the int the function returns.  The product of
\* two dimensions up to 2^16 is kept as hi * 2^16 + lo, lo < 2^16.
Limb == 256 * 256

IndexProduct(r, c) ==
    LET p0 == r * (c % 256)
        p1 == r * (c \div 256)
        t  == (p1 % 256) * 256 + p0
    IN  [hi |-> (p1 \div 256) + (t \div Limb), lo |-> t % Limb]

\* Conversion of a 64-bit value to int: the low 32 bits, two's complement.
ToInt(w) ==
    LET h == w.hi % Limb
    IN  IF h >= Limb \div 2 THEN (h - Limb) * Limb + w.lo ELSE h * Limb + w.lo

\* The largest int.
IntMax == 2147483647

\* Variant: return A.rows()*A.rows();
NumParameters_rowsTwice(self) == ToInt(IndexProduct(self.A.rows, self.A.rows))
\* return A.rows()*A.cols();
NumParameters(self) == ToInt(IndexProduct(self.A.rows, self.A.cols))

NumParametersCall ==
    /\ numParams' = <<NumParameters(MatrixDenoising(A))>>
    /\ UNCHANGED <<A, parameters, gradient, cost, ret, scenario, pc, X, iter>>

\* ------------------------------------------------------------ the caller
\* What the caller may pass as `gradient`: NULL, or a buffer of n doubles
\* holding whatever was there before (here: any one value throughout).
GradientArgs(n) == {NULL} \cup {Ptr(Fill(n, v)) : v \in Vals}

\* The caller of Evaluate (the solver) hands in a parameter buffer of
\* rows*cols doubles and a gradient argument; cost[0] is not yet written.
Call(x, g) ==
    /\ parameters' = x
    /\ gradient' = g
    /\ cost' = <<>>
    /\ ret' = "none"
    /\ UNCHANGED <<A, numParams, scenario, pc, X, iter>>

\* ------------------------------------------------------------ specifications
Matrices == UNION {{Map(d, s[1], s[2]) : d \in Buffers(s[1] * s[2])} : s \in Shapes}

\* The entries of matrix M are held by the model.
Materialised(M) ==
    /\ M.rows <= MaxEntries
    /\ M.cols <= MaxEntries
    /\ Len(M.data) = M.rows * M.cols

\* Matrices of which the model holds the dimensions only.
DimsOnly ==
    LET Dims == (1..MaxEntries) \cup LargeDims
    IN  {Map(<<>>, r, c) : r \in Dims, c \in Dims} \ {Map(<<>>, 1, 1)}

DriverIdle ==
    /\ scenario = "none"
    /\ pc = "idle"
    /\ X = Map(<<>>, 0, 0)
    /\ iter = 0

\* The state after MatrixDenoising(A) is constructed and a first call is set up.
Init ==
    /\ A \in Matrices
    /\ parameters \in Buffers(A.rows * A.cols)
    /\ gradient \in GradientArgs(A.rows * A.cols)
    /\ cost = <<>>
    /\ ret = "none"
    /\ numParams = <<>>
    /\ memo = <<>>
    /\ DriverIdle

AnyCall == \E x \in Buffers(A.rows * A.cols) : \E g \in GradientArgs(A.rows * A.cols) : Call(x, g)

Next ==
    \/ AnyCall /\ UNCHANGED memo
    \/ Evaluate /\ UNCHANGED memo
    \/ NumParametersCall /\ UNCHANGED memo

Spec == Init /\ [][Next]_vars

\* --- SpecRepeat: Spec with a history of one earlier call without gradient.
\* memo = <<[X, cost, others]>>: the parameters and the cost of a recorded call,
\* and whether Evaluate has since been called at other parameters.
Remember ==
    \/ /\ gradient.null
       /\ memo' = <<[X |-> parameters, cost |-> cost'[1], others |-> FALSE]>>
    \/ /\ memo # <<>>
       /\ memo' = <<[memo[1] EXCEPT !.others = @ \/ parameters # memo[1].X]>>
    \/ /\ memo = <<>>
       /\ memo' = memo

NextRepeat ==
    \/ AnyCall /\ UNCHANGED memo
    \/ Evaluate /\ Remember
    \/ NumParametersCall /\ UNCHANGED memo

SpecRepeat == Init /\ [][NextRepeat]_vars

\* --- SpecDims: Spec started also on targets of large dimensions.  Their
\* entries are not held, so only the operations that read the dimensions
\* alone are explored on them.
InitDims ==
    /\ \/ /\ A \in Matrices
          /\ parameters \in Buffers(A.rows * A.cols)
          /\ gradient \in GradientArgs(A.rows * A.cols)
       \/ /\ A \in DimsOnly
          /\ parameters = <<>>
          /\ gradient = NULL
    /\ cost = <<>>
    /\ ret = "none"
    /\ numParams = <<>>
    /\ memo = <<>>
    /\ DriverIdle

NextDims ==
    \/ Materialised(A) /\ AnyCall /\ UNCHANGED memo
    \/ Materialised(A) /\ Evaluate /\ UNCHANGED memo
    \/ NumParametersCall /\ UNCHANGED memo

SpecDims == InitDims /\ [][NextDims]_vars

\* ------------------------------------------------------------ the drivers
\* size_t N = 10;                      (main_DS_denoise)
DS_N == 10
\* size_t N = 10, K = 10;              (main)
Stiefel_N == 10
Stiefel_K == 10
\* options.max_num_iterations = 200;
max_num_iterations == 200

\* Shifts of the permutation patterns the model draws manifold points from.
MaxShift == 1

\* MatrixXd::Random(n, k): an n x k matrix with entries in [-1, 1].  The model
\* draws the matrices whose odd storage positions hold v and even ones w.
Random(n, k) ==
    {Map([i \in 1..(n * k) |-> IF i % 2 = 1 THEN v ELSE w], n, k) : v \in (-1)..1, w \in (-1)..1}

\* M.cwiseAbs()
cwiseAbs(M) == [M EXCEPT !.data = [i \in 1..Len(M.data) |-> IF M.data[i] < 0 THEN 0 - M.data[i] ELSE M.data[i]]]

\* The n x k matrix with a one in row ((j - 1 + s) mod n) + 1 of column j.
ShiftMatrix(n, k, s) ==
    Map([i \in 1..(n * k) |->
            IF (i - 1) % n = (((i - 1) \div n) + s) % n THEN 1 ELSE 0], n, k)

\* DSn_rand(N): a random N x N doubly stochastic matrix (a point of the
\* Birkhoff polytope); the model draws shifted permutation matrices.
DSn_rand(n) == {ShiftMatrix(n, n, s) : s \in 0..MaxShift}

\* Stiefel_rand(N, K): a random N x K matrix with orthonormal columns.
Stiefel_rand(n, k) == {ShiftMatrix(n, k, s) : s \in 0..MaxShift}

\* Variant: A = MatrixXd::Random(N, N + 1).
main_DS_denoise_wide ==
    /\ pc = "start" /\ scenario = "main_DS_denoise"
    /\ \E R \in Random(DS_N, DS_N + 1) : A' = cwiseAbs(R)
    /\ X' \in DSn_rand(DS_N)
    /\ pc' = "built"
    /\ UNCHANGED <<parameters, gradient, cost, ret, numParams, scenario, iter>>
\* int main_DS_denoise(): builds A (random, made non-negative) and X, the
\* functor on A and the Birkhoff problem, and calls solveGradientProblem.
main_DS_denoise ==
    /\ pc = "start" /\ scenario = "main_DS_denoise"
    /\ \E R \in Random(DS_N, DS_N) : A' = cwiseAbs(R)
    /\ X' \in DSn_rand(DS_N)
    /\ pc' = "built"
    /\ UNCHANGED <<parameters, gradient, cost, ret, numParams, scenario, iter>>

\* int main(): builds A (random) and X, the functor on A and the Stiefel
\* problem, and calls solveGradientProblem.
main ==
    /\ pc = "start" /\ scenario = "main"
    /\ A' \in Random(Stiefel_N, Stiefel_K)
    /\ X' \in Stiefel_rand(Stiefel_N, Stiefel_K)
    /\ pc' = "built"
    /\ UNCHANGED <<parameters, gradient, cost, ret, numParams, scenario, iter>>

\* solveGradientProblem(gradientProblem, solution): sets the options and calls
\* ceres::Solve(options, gradientProblem, solution.data(), &summary).  The
\* solver works on the storage of `solution` and sizes its own buffers by
\* NumParameters().
solveGradientProblem ==
    /\ pc = "built"
    /\ parameters' = X.data
    /\ numParams' = <<NumParameters(MatrixDenoising(A))>>
    /\ gradient' \in GradientArgs(numParams'[1])
    /\ cost' = <<>>
    /\ ret' = "none"
    /\ iter' = 0
    /\ pc' = "solving"
    /\ UNCHANGED <<A, X, scenario>>

\* The solver evaluates the functor at the current point.
SolverEvaluate ==
    /\ pc = "solving" /\ ret = "none"
    /\ Evaluate

\* The points a step may move the candidate to: it stays on the manifold.
ManifoldPoints ==
    IF scenario = "main_DS_denoise" THEN DSn_rand(X.rows) ELSE Stiefel_rand(X.rows, X.cols)

\* One iteration: after an evaluation the solver moves the candidate, in
\* place, and sets up the next evaluation; at most max_num_iterations times.
SolverStep ==
    /\ pc = "solving" /\ ret = "true"
    /\ iter < max_num_iterations
    /\ \E Y \in ManifoldPoints : X' = Y /\ parameters' = Y.data
    /\ gradient' \in GradientArgs(numParams[1])
    /\ cost' = <<>>
    /\ ret' = "none"
    /\ iter' = iter + 1
    /\ UNCHANGED <<A, numParams, scenario, pc>>

\* ceres::Solve returns (tolerance reached, line search failed, or the
\* iteration cap reached) and solveGradientProblem returns the summary.
SolverReturn ==
    /\ pc = "solving" /\ ret = "true"
    /\ pc' = "solved"
    /\ UNCHANGED <<A, parameters, gradient, cost, ret, numParams, scenario, X, iter>>

\* The driver prints the report and the manifold check, and returns 0.
Report ==
    /\ pc = "solved"
    /\ pc' = "done"
    /\ UNCHANGED <<A, parameters, gradient, cost, ret, numParams, scenario, X, iter>>

\* The process starts in one of the two scenario drivers; nothing is built yet.
InitSolve ==
    /\ scenario \in {"main_DS_denoise", "main"}
    /\ pc = "start"
    /\ A = Map(<<>>, 0, 0)
    /\ X = Map(<<>>, 0, 0)
    /\ parameters = <<>>
    /\ gradient = NULL
    /\ cost = <<>>
    /\ ret = "none"
    /\ numParams = <<>>
    /\ iter = 0
    /\ memo = <<>>

NextSolve ==
    \/ main_DS_denoise /\ UNCHANGED memo
    \/ main /\ UNCHANGED memo
    \/ solveGradientProblem /\ UNCHANGED memo
    \/ SolverEvaluate /\ UNCHANGED memo
    \/ SolverStep /\ UNCHANGED memo
    \/ SolverReturn /\ UNCHANGED memo
    \/ Report /\ UNCHANGED memo

SpecSolve == InitSolve /\ [][NextSolve]_vars

\* ------------------------------------------------------------ properties
\* The index pairs (i, j) of the target matrix.
Entries == (1..A.rows) \X (1..A.cols)

\* X(i,j) - A(i,j), with X the candidate behind the parameter buffer.
Diff(e) == At(P0, e[1], e[2]) - At(A, e[1], e[2])

\* The sum over the index pairs in S of (X(i,j) - A(i,j))^2.
RECURSIVE SumDiffSq(_)
SumDiffSq(S) ==
    IF S = {} THEN 0
    ELSE LET e == CHOOSE e \in S : TRUE
         IN  Diff(e) * Diff(e) + SumDiffSq(S \ {e})

\* An Evaluate call has returned and its arguments and results are in place.
Returned == ret = "true"

\* C1: after Evaluate with a non-null gradient buffer, entry (i,j) of the
\* buffer is X(i,j) - A(i,j), for every i, j, whatever the buffer held before.
C1_GradientIsXMinusA ==
    (Returned /\ ~gradient.null) =>
        /\ Len(gradient.data) = A.rows * A.cols
        /\ \A e \in Entries :
               At(Map(gradient.data, A.rows, A.cols), e[1], e[2]) = Diff(e)

\* Evaluate wrote a gradient that is not constant, at a candidate other than the
\* target, for a target with more than one entry.
C1_Witness ==
    /\ Returned /\ ~gradient.null
    /\ A.rows * A.cols > 1
    /\ gradient.data[1] # gradient.data[2]
    /\ gradient.data[2] # 0

\* C2: the cost Evaluate writes to cost[0] is the non-negative c with
\* (2c)^2 = sum of (X(i,j) - A(i,j))^2, and it is the value of costFrobenius
\* and of costGradientFrobenius alike, whichever of the two the call took.
C2_CostIsHalfFrobenius ==
    Returned =>
        LET c == cost[1]
            self == MatrixDenoising(A)
        IN  /\ Sign(c) >= 0
            /\ c.den > 0
            /\ 4 * c.num * c.num * c.rad = SumDiffSq(Entries) * c.den * c.den
            /\ SameReal(c, costFrobenius(self, P0))
            /\ SameReal(c, costGradientFrobenius(self, P0).cost)

\* Evaluate returned a cost that is neither zero nor rational in 1/2, with a gradient.
C2_Witness ==
    /\ Returned /\ ~gradient.null
    /\ cost[1].rad = 2

\* C3: the gradient written is the derivative with respect to X of the cost
\* returned.  The cost is c(X) = 0.5 * sqrt(sum (X - A)^2), whose partial
\* derivative in X(i,j), away from X = A, is (X(i,j) - A(i,j)) / (4 c(X)):
\* so 4 * cost * gradient(i,j) = X(i,j) - A(i,j) for every i, j.
C3_GradientIsDerivativeOfCost ==
    (Returned /\ ~gradient.null /\ parameters # A.data) =>
        \A e \in Entries :
            LET g == At(Map(gradient.data, A.rows, A.cols), e[1], e[2])
                c == cost[1]
            IN  SameReal([num |-> 4 * c.num * g, den |-> c.den, rad |-> c.rad],
                         [num |-> Diff(e), den |-> 1, rad |-> 1])

\* C4: at X = A, Evaluate with a gradient request yields cost 0 and the zero
\* matrix of A's dimensions as the gradient.
C4_ZeroAtTarget ==
    (Returned /\ ~gradient.null /\ parameters = A.data) =>
        /\ Sign(cost[1]) = 0
        /\ gradient.data = Fill(A.rows * A.cols, 0)

\* Evaluate was called at X = A with a gradient buffer, on a target that is not
\* the zero matrix and has more than one entry.
C4_Witness ==
    /\ Returned /\ ~gradient.null /\ parameters = A.data
    /\ A.rows * A.cols > 1
    /\ \E k \in 1..Len(A.data) : A.data[k] # 0

\* A step in which a pending Evaluate call returns.
EvaluateStep == ret = "none" /\ ret' # "none"

\* C5: an Evaluate call leaves A and the parameter buffer as they were, writes
\* nothing but cost[0] when the gradient is NULL, and a call without gradient
\* at the parameters of a recorded earlier call without gradient returns the
\* recorded cost, whatever calls came in between.
C5_EvaluateIsPure ==
    [][/\ EvaluateStep =>
            /\ A' = A
            /\ parameters' = parameters
            /\ numParams' = numParams
            /\ gradient.null => gradient' = gradient
       /\ (EvaluateStep /\ memo # <<>> /\ gradient.null /\ parameters = memo[1].X) =>
            cost' = <<memo[1].cost>>]_vars

\* A call without gradient returned at the recorded parameters after calls at others.
C5_Witness ==
    /\ memo # <<>>
    /\ memo[1].others
    /\ Returned /\ gradient.null /\ parameters = memo[1].X
    /\ parameters # A.data

\* C6: Evaluate never returns false, has written cost[0] whenever it has
\* returned, and can be taken in every state: nothing rejects an input.
C6_EvaluateAlwaysSucceeds ==
    /\ ret \in {"none", "true"}
    /\ Returned => Len(cost) = 1
    /\ ENABLED Evaluate

\* Evaluate returned true on a call without gradient buffer.
C6_Witness == Returned /\ gradient.null /\ Len(cost) = 1

\* C7 as stated: NumParameters has returned exactly N*K, for every N and K.
C7_NumParametersExact ==
    numParams # <<>> =>
        /\ numParams[1] >= 0
        /\ numParams[1] % A.rows = 0
        /\ numParams[1] \div A.rows = A.cols

\* C7, amended: whenever N*K is at most the largest int, what NumParameters
\* returned is exactly N*K, also after later Evaluate calls.
C7_NumParametersInRange ==
    (numParams # <<>> /\ A.cols <= IntMax \div A.rows) =>
        /\ numParams[1] >= 0
        /\ numParams[1] % A.rows = 0
        /\ numParams[1] \div A.rows = A.cols

\* NumParameters returned on a non-square target and Evaluate returned after.
C7_Witness ==
    /\ numParams # <<>>
    /\ A.rows # A.cols
    /\ Returned

\* C8: the cost of X against target A equals the cost of -X against target -A.
C8_NegationSymmetry ==
    (Returned /\ gradient.null) =>
        SameReal(cost[1], costFrobenius(MatrixDenoising(Neg(A)), Neg(P0)))

\* Evaluate returned a non-zero cost without gradient, at a candidate that is not
\* its own negation.
C8_Witness ==
    /\ Returned /\ gradient.null
    /\ Sign(cost[1]) # 0
    /\ Neg(P0) # P0

\* C10: in both scenario drivers, from the call of solveGradientProblem to the
\* end of the solve the candidate X has the dimensions of the target A, the
\* parameter buffer is X's storage and has rows(A)*cols(A) entries at every
\* Evaluate call, and A's dimensions do not change once the functor is built.
C10_BufferMatchesTarget ==
    [][/\ pc' \in {"built", "solving", "solved"} =>
            /\ X'.rows = A'.rows /\ X'.cols = A'.cols
            /\ Len(X'.data) = A'.rows * A'.cols
       /\ pc' = "solving" =>
            /\ parameters' = X'.data
            /\ Len(parameters') = A'.rows * A'.cols
       /\ pc \in {"built", "solving", "solved"} =>
            /\ A'.rows = A.rows /\ A'.cols = A.cols]_vars

\* Evaluate returned, with a gradient, during the solve of main after a step.
C10_Witness ==
    /\ scenario = "main" /\ pc = "solving"
    /\ iter > 1
    /\ Returned /\ ~gradient.null

====
